---- MODULE Spec2Model ----
(***************************************************************************)
(* Model of VoiceFileAnalyzer.search_for_file (src/automation_agent.py).   *)
(*                                                                         *)
(* A string is a sequence of one-character strings, a path is a sequence   *)
(* of path components (each a string in that sense).  The filesystem is a  *)
(* sequence of nodes in the order in which the operating system lists      *)
(* them.  One call of search_for_file is a process whose position is pc.   *)
(***************************************************************************)
EXTENDS Naturals, Integers, Sequences, FiniteSets, TLC

(* ------------------------------ bounds --------------------------------- *)

\* largest number of bulk files "<k>inv.p" below Downloads/Telegram Desktop
MaxBulk == 14

\* how many times search_for_file is invoked on one analyzer
MaxCalls == 2

\* how many analyses are run in one session of the page
MaxAnalyses == 1

(* --------------------------- program constants -------------------------- *)

\* unique_files[:15]
MaxResults == 15
\* len(file_path.parts) - len(location.parts) <= 3
MaxDepth == 3

(* ------------------------------ strings -------------------------------- *)

\* str.lower() on the characters that occur in the model
Lower(c) ==
  CASE c = "I" -> "i"
    [] c = "N" -> "n"
    [] c = "V" -> "v"
    [] c = "P" -> "p"
    [] c = "A" -> "a"
    [] c = "C" -> "c"
    [] c = "D" -> "d"
    [] c = "E" -> "e"
    [] c = "F" -> "f"
    [] c = "O" -> "o"
    [] c = "Q" -> "q"
    [] c = "S" -> "s"
    [] OTHER -> c

ToLower(s) == [k \in 1..Len(s) |-> Lower(s[k])]

\* Python's  needle in hay  on strings
Contains(needle, hay) ==
  \E k \in 0..(Len(hay) - Len(needle)) :
    \A j \in 1..Len(needle) : hay[k + j] = needle[j]

\* the term not lowered: filename in file_path.name.lower()
NameMatchesTermAsTyped(filename, name) == Contains(filename, ToLower(name))

\* filename.lower() in file_path.name.lower()
NameMatches(filename, name) == Contains(ToLower(filename), ToLower(name))

(* ------------------------------- paths --------------------------------- *)

\* the elements of a sequence
Range(f) == {f[k] : k \in 1..Len(f)}

IsPrefix(p, q) == Len(p) <= Len(q) /\ SubSeq(q, 1, Len(p)) = p

\* file_path.name
Name(p) == p[Len(p)]

\* file_path.parent
Parent(p) == SubSeq(p, 1, Len(p) - 1)

RECURSIVE SplitFrom(_, _, _)
\* the components of s[k..] separated by "/", cur being the one in progress
SplitFrom(s, k, cur) ==
  IF k > Len(s) THEN (IF cur = <<>> THEN <<>> ELSE <<cur>>)
  ELSE IF s[k] = "/"
       THEN (IF cur = <<>> THEN <<>> ELSE <<cur>>) \o SplitFrom(s, k + 1, <<>>)
       ELSE SplitFrom(s, k + 1, Append(cur, s[k]))

\* Path.home(): C:\Users\u on Windows, /Users/u on macOS, /home/u on Linux
Home(os) ==
  CASE os = "Windows" -> << <<"C", ":">>, <<"U", "s", "e", "r", "s">>, <<"u">> >>
    [] os = "Darwin" -> << <<"U", "s", "e", "r", "s">>, <<"u">> >>
    [] OTHER -> << <<"h", "o", "m", "e">>, <<"u">> >>

\* location / filename : the components of filename appended to location;
\* a filename that starts with the separator replaces everything but the drive
JoinPath(os, location, filename) ==
  IF filename # <<>> /\ filename[1] = "/"
  THEN (IF os = "Windows" THEN <<location[1]>> ELSE <<>>)
         \o SplitFrom(filename, 1, <<>>)
  ELSE location \o SplitFrom(filename, 1, <<>>)

RECURSIVE Str(_)
\* str(path): the components joined by the separator
Str(p) ==
  IF p = <<>> THEN <<>>
  ELSE Str(Parent(p)) \o <<"/">> \o Name(p)

(* ----------------------------- directories ------------------------------ *)

dDownloads == <<"D", "o", "w", "n">>
dTelegram == <<"T", "g">>
dDocuments == <<"D", "o", "c", "s">>
dDesktop == <<"D", "e", "s", "k">>
dTmp == <<"t", "m", "p">>
dApplications == <<"A", "p", "p", "s">>
dDrive == <<"D", ":">>

\* getenv("USERNAME", ""): the account whose profile Path.home() is
Username == <<"u">>

\* the else branch copied from the macOS branch: /Applications for /tmp
SearchLocationsElseAsDarwin(os, dProbe) ==
  IF os = "Windows"
  THEN << Home(os) \o <<dDownloads>>,
          Home(os) \o <<dDownloads, dTelegram>>,
          Home(os) \o <<dDocuments>>,
          Home(os) \o <<dDesktop>>,
          << <<"C", ":">>, <<"U", "s", "e", "r", "s">>, Username, dDownloads >>,
          << <<"C", ":">>, <<"U", "s", "e", "r", "s">>, Username, dDocuments >>,
          << <<"C", ":">>, <<"U", "s", "e", "r", "s">>, Username, dDesktop >> >>
       \o (IF dProbe THEN << <<dDrive, dDownloads>> >> ELSE <<>>)
  ELSE << Home(os) \o <<dDownloads>>,
          Home(os) \o <<dDocuments>>,
          Home(os) \o <<dDesktop>>,
          <<dApplications>> >>

\* D:/Downloads listed without asking whether the drive exists
SearchLocationsNoProbe(os, dProbe) ==
  CASE os = "Windows" ->
         << Home(os) \o <<dDownloads>>,
            Home(os) \o <<dDownloads, dTelegram>>,
            Home(os) \o <<dDocuments>>,
            Home(os) \o <<dDesktop>>,
            << <<"C", ":">>, <<"U", "s", "e", "r", "s">>, Username, dDownloads >>,
            << <<"C", ":">>, <<"U", "s", "e", "r", "s">>, Username, dDocuments >>,
            << <<"C", ":">>, <<"U", "s", "e", "r", "s">>, Username, dDesktop >>,
            <<dDrive, dDownloads>> >>
    [] os = "Darwin" ->
         << Home(os) \o <<dDownloads>>,
            Home(os) \o <<dDocuments>>,
            Home(os) \o <<dDesktop>>,
            <<dApplications>> >>
    [] OTHER ->
         << Home(os) \o <<dDownloads>>,
            Home(os) \o <<dDocuments>>,
            Home(os) \o <<dDesktop>>,
            <<dTmp>> >>

\* the search_locations list of one platform; dProbe is the outcome of
\* Path("D:/").exists(), which decides whether D:/Downloads is listed
SearchLocations(os, dProbe) ==
  CASE os = "Windows" ->
         << Home(os) \o <<dDownloads>>,
            Home(os) \o <<dDownloads, dTelegram>>,
            Home(os) \o <<dDocuments>>,
            Home(os) \o <<dDesktop>>,
            << <<"C", ":">>, <<"U", "s", "e", "r", "s">>, Username, dDownloads >>,
            << <<"C", ":">>, <<"U", "s", "e", "r", "s">>, Username, dDocuments >>,
            << <<"C", ":">>, <<"U", "s", "e", "r", "s">>, Username, dDesktop >> >>
         \o (IF dProbe THEN << <<dDrive, dDownloads>> >> ELSE <<>>)
    [] os = "Darwin" ->
         << Home(os) \o <<dDownloads>>,
            Home(os) \o <<dDocuments>>,
            Home(os) \o <<dDesktop>>,
            <<dApplications>> >>
    [] OTHER ->
         << Home(os) \o <<dDownloads>>,
            Home(os) \o <<dDocuments>>,
            Home(os) \o <<dDesktop>>,
            <<dTmp>> >>

(* ----------------------------- filesystem ------------------------------- *)

Platforms == {"Windows", "Darwin", "Linux"}

\* NTFS and APFS/HFS+ look names up without regard to case, ext4 does not
CaseInsensitive(os) == os \in {"Windows", "Darwin"}

FoldPath(p) == [k \in 1..Len(p) |-> ToLower(p[k])]

\* the key under which the platform looks a path up
Key(os, p) == IF CaseInsensitive(os) THEN FoldPath(p) ELSE p

\* do p and q name the same directory entry on this platform
SamePath(os, p, q) == Key(os, p) = Key(os, q)

fInv == <<"i", "n", "v", ".", "p">>
fInv2 == <<"i", "n", "v", "2">>
fUpper == <<"I", "N", "V", ".", "x">>
BulkChar == <<"a", "b", "c", "d", "e", "f", "g", "h", "j", "k", "l", "m",
              "o", "q", "r", "s", "t", "u", "w", "y">>

\* the last catalog directory of the platform
LastDir(os) ==
  CASE os = "Windows" -> <<dDrive, dDownloads>>
    [] os = "Darwin" -> <<dApplications>>
    [] OTHER -> <<dTmp>>

MTimePatterns == {"asc", "desc", "ties"}

\* st_mtime of the idx-th node
MTime(pat, idx) ==
  CASE pat = "asc" -> idx
    [] pat = "desc" -> 40 - idx
    [] OTHER -> idx % 3

Layouts == {"full", "noDownloads", "empty"}

\* the nodes of one filesystem, in listing order: eight fixed nodes and
\* bulk files below Downloads/Telegram Desktop
Nodes(os, bulk, pat, layout) ==
  LET fixed ==
        << [path |-> Home(os) \o <<dDownloads, fInv>>, kind |-> "file"],
           [path |-> Home(os) \o <<dDownloads, fInv2>>, kind |-> "file"],
           [path |-> Home(os) \o <<dDownloads, dTelegram, fInv>>, kind |-> "file"],
           [path |-> Home(os) \o <<dDocuments, fInv>>, kind |-> "file"],
           [path |-> Home(os) \o <<dDocuments, <<"a">>, <<"b">>, fUpper>>, kind |-> "file"],
           [path |-> Home(os) \o <<dDocuments, <<"a">>, <<"b">>, <<"c">>, fInv>>, kind |-> "file"],
           [path |-> Home(os) \o <<dDesktop, fInv>>, kind |-> "dir"],
           [path |-> LastDir(os) \o <<fInv>>, kind |-> "file"] >>
      bulkNodes ==
        [k \in 1..bulk |->
           [path |-> Home(os) \o <<dDownloads, dTelegram, <<BulkChar[k]>> \o fInv>>,
            kind |-> "file"]]
      all == fixed \o bulkNodes
      timed == [k \in 1..Len(all) |->
                  [path |-> all[k].path, key |-> Key(os, all[k].path),
                   kind |-> all[k].kind, mtime |-> MTime(pat, k)]]
      keep(n) == CASE layout = "full" -> TRUE
                   [] layout = "noDownloads" ->
                        ~IsPrefix(Home(os) \o <<dDownloads>>, n.path)
                   [] OTHER -> FALSE
  IN SelectSeq(timed, keep)

\* path.exists() for a path the platform resolves to key: the path is a
\* node or a directory above one
Exists(nodes, key) ==
  \E k \in 1..Len(nodes) :
    /\ Len(key) <= Len(nodes[k].key)
    /\ SubSeq(nodes[k].key, 1, Len(key)) = key

\* is_dir() written for is_file()
IsFileAsIsDir(nodes, key) ==
  \E k \in 1..Len(nodes) : nodes[k].kind = "dir" /\ nodes[k].key = key

\* path.is_file()
IsFile(nodes, key) ==
  \E k \in 1..Len(nodes) : nodes[k].kind = "file" /\ nodes[k].key = key

\* path.stat().st_mtime of an existing node
StatMTime(nodes, key) ==
  LET k == CHOOSE k \in 1..Len(nodes) : nodes[k].key = key
  IN nodes[k].mtime

\* location.iterdir(): the entries directly inside location, in listing
\* order, each with the key the platform resolves it to
IterDir(os, nodes, location) ==
  LET key == Key(os, location)
      inside(n) == /\ Len(n.path) = Len(location) + 1
                   /\ Parent(n.key) = key
      hits == SelectSeq(nodes, inside)
  IN [k \in 1..Len(hits) |->
        [path |-> Append(location, Name(hits[k].path)), key |-> hits[k].key]]

\* location.rglob("*"): every entry below location, in listing order
RGlob(os, nodes, location) ==
  LET key == Key(os, location)
      below(n) == /\ Len(n.path) > Len(location)
                  /\ SubSeq(n.key, 1, Len(location)) = key
      hits == SelectSeq(nodes, below)
  IN [k \in 1..Len(hits) |->
        [path |-> location
                    \o SubSeq(hits[k].path, Len(location) + 1, Len(hits[k].path)),
         key |-> hits[k].key]]

(* ----------------------------- permissions ------------------------------ *)

NoFault == [dir |-> <<>>, key |-> <<>>, mode |-> "none"]

\* the directories whose permissions the model varies
FaultDirs(os) ==
  { Home(os),
    Home(os) \o <<dDownloads>>,
    Home(os) \o <<dDownloads, dTelegram>>,
    Home(os) \o <<dDocuments>>,
    Home(os) \o <<dDocuments, <<"a">> >>,
    LastDir(os) }

\* one directory at most is restricted: "noSearch" (its entries cannot be
\* stat'ed), "noRead" (it cannot be listed) or, for the D: drive, "locked"
\* (the drive root itself cannot be stat'ed)
Faults(os) ==
  {NoFault}
    \cup { [dir |-> d, key |-> Key(os, d), mode |-> m] :
             d \in FaultDirs(os), m \in {"noSearch", "noRead"} }
    \cup (IF os = "Windows"
          THEN { [dir |-> <<dDrive>>, key |-> Key(os, <<dDrive>>), mode |-> "locked"] }
          ELSE {})

\* os.stat raises PermissionError for the path the platform resolves to key
StatRaises(flt, key) ==
  \/ /\ flt.mode = "noSearch"
     /\ Len(flt.key) < Len(key)
     /\ SubSeq(key, 1, Len(flt.key)) = flt.key
  \/ /\ flt.mode = "locked"
     /\ IsPrefix(flt.key, key)

\* os.listdir raises PermissionError
ListRaises(flt, key) == flt.mode = "noRead" /\ flt.key = key

\* the walk of rglob leaves out what lies below a directory it cannot list
Unlisted(flt, key) ==
  /\ flt.mode = "noRead"
  /\ Len(flt.key) < Len(key)
  /\ SubSeq(key, 1, Len(flt.key)) = flt.key

RECURSIVE UntilRaise(_, _)
\* the entries a loop gets through before file_path.is_file() raises
UntilRaise(flt, entries) ==
  IF entries = <<>> \/ StatRaises(flt, Head(entries).key) THEN <<>>
  ELSE <<Head(entries)>> \o UntilRaise(flt, Tail(entries))

(* -------------------------- the three scan phases ----------------------- *)

\* exact_match = location / filename, kept when it exists and is a file
ExactMatch(os, nodes, location, filename) ==
  LET exact_match == JoinPath(os, location, filename)
      key == Key(os, exact_match)
  IN IF Exists(nodes, key) /\ IsFile(nodes, key)
     THEN <<exact_match>> ELSE <<>>

\* the files among entries whose name contains filename, case-insensitively
DirectMatches(nodes, entries, filename) ==
  LET ok(file_path) == /\ IsFile(nodes, file_path.key)
                       /\ NameMatches(filename, Name(file_path.path))
      hits == SelectSeq(entries, ok)
  IN [k \in 1..Len(hits) |-> hits[k].path]

\* is_file() left out of the recursive phase: directories are collected too
RecursiveMatchesAnyKind(nodes, location, entries, filename) ==
  LET ok(file_path) == /\ NameMatches(filename, Name(file_path.path))
                       /\ Len(file_path.path) - Len(location) <= MaxDepth
      hits == SelectSeq(entries, ok)
  IN [k \in 1..Len(hits) |-> hits[k].path]

\* the same test with the depth limit of the recursive phase
RecursiveMatches(nodes, location, entries, filename) ==
  LET ok(file_path) == /\ IsFile(nodes, file_path.key)
                       /\ NameMatches(filename, Name(file_path.path))
                       /\ Len(file_path.path) - Len(location) <= MaxDepth
      hits == SelectSeq(entries, ok)
  IN [k \in 1..Len(hits) |-> hits[k].path]

(* ------------------------------- ranking -------------------------------- *)

\* the repetitions kept: list(found_files)
DedupNone(files, seen) == files

RECURSIVE Dedup(_, _)
\* list({str(f): f for f in found_files}.values()): one entry per path
\* string, at the position of its first occurrence
Dedup(files, seen) ==
  IF files = <<>> THEN <<>>
  ELSE IF Str(Head(files)) \in seen
       THEN Dedup(Tail(files), seen)
       ELSE <<Head(files)>> \o Dedup(Tail(files), seen \cup {Str(Head(files))})

RECURSIVE InsertDesc(_, _)
\* x put in front of the first element of the sorted list whose key is not larger
InsertDesc(x, sorted) ==
  IF sorted = <<>> THEN <<x>>
  ELSE IF Head(sorted).key <= x.key
       THEN <<x>> \o sorted
       ELSE <<Head(sorted)>> \o InsertDesc(x, Tail(sorted))

RECURSIVE SortKeyed(_)
SortKeyed(keyed) ==
  IF keyed = <<>> THEN <<>>
  ELSE InsertDesc(Head(keyed), SortKeyed(Tail(keyed)))

\* the sort left out
SortNone(os, nodes, files) == files

\* list.sort(key=lambda x: x.stat().st_mtime, reverse=True): the key of every
\* element is computed once, then the list is sorted stably, largest key first
SortNewestFirst(os, nodes, files) ==
  LET keyed == [k \in 1..Len(files) |->
                  [file |-> files[k], key |-> StatMTime(nodes, Key(os, files[k]))]]
      sorted == SortKeyed(keyed)
  IN [k \in 1..Len(sorted) |-> sorted[k].file]

\* the slice forgotten: the whole list is returned
TruncateNone(files, n) == files

\* files[:n]
Truncate(files, n) == SubSeq(files, 1, IF Len(files) < n THEN Len(files) ELSE n)

(* ------------------------- process_voice_command ------------------------ *)

\* str.strip() for blanks
Strip(s) ==
  LET inked == {k \in 1..Len(s) : s[k] # " "}
  IN IF inked = {} THEN <<>>
     ELSE SubSeq(s, CHOOSE k \in inked : \A j \in inked : k <= j,
                    CHOOSE k \in inked : \A j \in inked : k >= j)

RECURSIVE WordsFrom(_, _, _)
\* str.split(): the words of s[k..] separated by blanks, cur being the one
\* in progress
WordsFrom(s, k, cur) ==
  IF k > Len(s) THEN (IF cur = <<>> THEN <<>> ELSE <<cur>>)
  ELSE IF s[k] = " "
       THEN (IF cur = <<>> THEN <<>> ELSE <<cur>>) \o WordsFrom(s, k + 1, <<>>)
       ELSE WordsFrom(s, k + 1, Append(cur, s[k]))

\* word.endswith(suffix)
EndsWith(word, suffix) ==
  /\ Len(suffix) <= Len(word)
  /\ SubSeq(word, Len(word) - Len(suffix) + 1, Len(word)) = suffix

\* ext.replace('.', '')
WithoutDots(ext) == SelectSeq(ext, LAMBDA c : c # ".")

\* any(word in voice_text for word in keywords)
AnyIn(keywords, text) == \E k \in 1..Len(keywords) : Contains(keywords[k], text)

\* the patterns dictionary of lines 185-193, in its order
Patterns ==
  << [key |-> "analyze",
       words |-> << <<"a", "n", "a", "l", "y", "z", "e">>,
                     <<"a", "n", "a", "l", "y", "s", "e">>,
                     <<"p", "r", "o", "c", "e", "s", "s">>,
                     <<"c", "h", "e", "c", "k">>,
                     <<"e", "x", "a", "m", "i", "n", "e">>,
                     <<"r", "e", "v", "i", "e", "w">> >>],
     [key |-> "document",
       words |-> << <<"d", "o", "c", "u", "m", "e", "n", "t">>,
                     <<"f", "i", "l", "e">>,
                     <<"p", "d", "f">>,
                     <<"p", "a", "p", "e", "r">>,
                     <<"d", "o", "c">>,
                     <<"d", "o", "c", "x">> >>],
     [key |-> "summary",
       words |-> << <<"s", "u", "m", "m", "a", "r", "y">>,
                     <<"s", "u", "m", "m", "a", "r", "i", "z", "e">>,
                     <<"o", "v", "e", "r", "v", "i", "e", "w">>,
                     <<"b", "r", "i", "e", "f">>,
                     <<"o", "u", "t", "l", "i", "n", "e">> >>],
     [key |-> "extract",
       words |-> << <<"e", "x", "t", "r", "a", "c", "t">>,
                     <<"f", "i", "n", "d">>,
                     <<"g", "e", "t">>,
                     <<"p", "u", "l", "l">>,
                     <<"r", "e", "t", "r", "i", "e", "v", "e">> >>],
     [key |-> "automation",
       words |-> << <<"a", "u", "t", "o", "m", "a", "t", "i", "o", "n">>,
                     <<"a", "u", "t", "o", "m", "a", "t", "e">>,
                     <<"r", "o", "b", "o", "t">>,
                     <<"a", "u", "t", "o", "m", "a", "t", "i", "c">> >>],
     [key |-> "search",
       words |-> << <<"s", "e", "a", "r", "c", "h">>,
                     <<"f", "i", "n", "d">>,
                     <<"l", "o", "c", "a", "t", "e">>,
                     <<"l", "o", "o", "k", " ", "f", "o", "r">> >>],
     [key |-> "open",
       words |-> << <<"o", "p", "e", "n">>,
                     <<"l", "o", "a", "d">>,
                     <<"a", "c", "c", "e", "s", "s">> >>] >>

\* patterns[key]
PatternWords(key) == Patterns[CHOOSE k \in 1..Len(Patterns) : Patterns[k].key = key].words

\* common_extensions of line 201
CommonExtensions ==
  << <<".", "p", "d", "f">>,
     <<".", "p", "n", "g">>,
     <<".", "j", "p", "g">>,
     <<".", "j", "p", "e", "g">>,
     <<".", "d", "o", "c">>,
     <<".", "d", "o", "c", "x">>,
     <<".", "t", "x", "t">>,
     <<".", "x", "l", "s", "x">> >>

\* file_patterns of lines 212-225, in the order of the dictionary
FilePatterns ==
  << [pattern |-> <<"c", "o", "v", "e", "r", " ", "l", "e", "t", "t", "e", "r">>,
       filename |-> <<"c", "o", "v", "e", "r", "_", "l", "e", "t", "t", "e", "r", ".", "p", "d", "f">>],
     [pattern |-> <<"r", "e", "s", "u", "m", "e">>,
       filename |-> <<"r", "e", "s", "u", "m", "e", ".", "p", "d", "f">>],
     [pattern |-> <<"c", "v">>,
       filename |-> <<"c", "v", ".", "p", "d", "f">>],
     [pattern |-> <<"r", "e", "p", "o", "r", "t">>,
       filename |-> <<"r", "e", "p", "o", "r", "t", ".", "p", "d", "f">>],
     [pattern |-> <<"i", "n", "v", "o", "i", "c", "e">>,
       filename |-> <<"i", "n", "v", "o", "i", "c", "e", ".", "p", "d", "f">>],
     [pattern |-> <<"i", "q", "a", "c">>,
       filename |-> <<"i", "q", "a", "c", ".", "p", "d", "f">>],
     [pattern |-> <<"p", "r", "e", "s", "e", "n", "t", "a", "t", "i", "o", "n">>,
       filename |-> <<"p", "r", "e", "s", "e", "n", "t", "a", "t", "i", "o", "n", ".", "p", "p", "t", "x">>],
     [pattern |-> <<"s", "p", "r", "e", "a", "d", "s", "h", "e", "e", "t">>,
       filename |-> <<"s", "p", "r", "e", "a", "d", "s", "h", "e", "e", "t", ".", "x", "l", "s", "x">>],
     [pattern |-> <<"c", "o", "n", "t", "r", "a", "c", "t">>,
       filename |-> <<"c", "o", "n", "t", "r", "a", "c", "t", ".", "p", "d", "f">>],
     [pattern |-> <<"p", "r", "o", "p", "o", "s", "a", "l">>,
       filename |-> <<"p", "r", "o", "p", "o", "s", "a", "l", ".", "p", "d", "f">>],
     [pattern |-> <<"t", "h", "e", "s", "i", "s">>,
       filename |-> <<"t", "h", "e", "s", "i", "s", ".", "p", "d", "f">>],
     [pattern |-> <<"a", "s", "s", "i", "g", "n", "m", "e", "n", "t">>,
       filename |-> <<"a", "s", "s", "i", "g", "n", "m", "e", "n", "t", ".", "p", "d", "f">>] >>

\* potential_filename = None
NoFilename == <<>>

\* lines 203-206: the filename the inner loop makes of one word, from the
\* first extension whose letters occur in the word
NameFromWord(word) ==
  LET fits == {k \in 1..Len(CommonExtensions) :
                 Contains(WithoutDots(CommonExtensions[k]), word)}
  IN IF fits = {} THEN NoFilename
     ELSE LET ext == CommonExtensions[CHOOSE k \in fits : \A j \in fits : k <= j]
          IN IF EndsWith(word, ext) THEN word ELSE word \o ext

\* lines 202-208: the first word that yields a filename decides
NameFromExtension(words) ==
  LET hits == {k \in 1..Len(words) : NameFromWord(words[k]) # NoFilename}
  IN IF hits = {} THEN NoFilename
     ELSE NameFromWord(words[CHOOSE k \in hits : \A j \in hits : k <= j])

\* lines 227-230: the filename of the first phrase of the table that occurs
\* in the command
NameFromPhrase(text) ==
  LET hits == {k \in 1..Len(FilePatterns) : Contains(FilePatterns[k].pattern, text)}
  IN IF hits = {} THEN NoFilename
     ELSE FilePatterns[CHOOSE k \in hits : \A j \in hits : k <= j].filename

\* lines 232-240 with the extract keywords tested before the summary keywords
AnalysisTypeExtractFirst(text) ==
  IF AnyIn(PatternWords("extract"), text) THEN "Key Information Extraction"
  ELSE IF AnyIn(PatternWords("summary"), text) THEN "Document Summary"
  ELSE IF AnyIn(PatternWords("automation"), text) THEN "Automation Opportunities"
  ELSE IF Contains(<<"c", "o", "n", "t", "e", "n", "t">>, text) \/ Contains(<<"q", "u", "a", "l", "i", "t", "y">>, text)
       THEN "Content Analysis"
  ELSE "Document Summary"

\* lines 232-240
AnalysisTypeOf(text) ==
  IF AnyIn(PatternWords("summary"), text) THEN "Document Summary"
  ELSE IF AnyIn(PatternWords("extract"), text) THEN "Key Information Extraction"
  ELSE IF AnyIn(PatternWords("automation"), text) THEN "Automation Opportunities"
  ELSE IF Contains(<<"c", "o", "n", "t", "e", "n", "t">>, text)
            \/ Contains(<<"q", "u", "a", "l", "i", "t", "y">>, text)
       THEN "Content Analysis"
  ELSE "Document Summary"

\* line 243 with the analyze keywords tested before the filename
ConfidenceKeywordFirst(potential_filename, text) ==
  IF AnyIn(PatternWords("analyze"), text) THEN "medium"
  ELSE IF potential_filename # NoFilename THEN "high"
  ELSE "low"

\* line 243
ConfidenceOf(potential_filename, text) ==
  IF potential_filename # NoFilename THEN "high"
  ELSE IF AnyIn(PatternWords("analyze"), text) THEN "medium"
  ELSE "low"

\* lines 180-251: the dictionary process_voice_command returns
ProcessVoiceCommand(spoken) ==
  LET text == Strip(ToLower(spoken))
      words == WordsFrom(text, 1, <<>>)
      fromExtension == NameFromExtension(words)
      potential_filename == IF fromExtension # NoFilename THEN fromExtension
                            ELSE NameFromPhrase(text)
  IN [filename |-> potential_filename,
      analysis_type |-> AnalysisTypeOf(text),
      original_command |-> text,
      confidence |-> ConfidenceOf(potential_filename, text),
      detected_patterns |->
        SelectSeq([k \in 1..Len(Patterns) |-> Patterns[k].key],
                  LAMBDA key : AnyIn(PatternWords(key), text))]

\* example_commands of lines 636-644
ExampleCommands ==
  << <<"A", "n", "a", "l", "y", "z", "e", " ", "m", "y", " ", "c", "o", "v", "e", "r", " ", "l", "e", "t", "t", "e", "r", " ", "P", "D", "F">>,
     <<"P", "r", "o", "c", "e", "s", "s", " ", "t", "h", "e", " ", "I", "Q", "A", "C", " ", "d", "o", "c", "u", "m", "e", "n", "t">>,
     <<"E", "x", "t", "r", "a", "c", "t", " ", "i", "n", "f", "o", "r", "m", "a", "t", "i", "o", "n", " ", "f", "r", "o", "m", " ", "i", "n", "v", "o", "i", "c", "e", " ", "P", "D", "F">>,
     <<"S", "u", "m", "m", "a", "r", "i", "z", "e", " ", "t", "h", "e", " ", "r", "e", "p", "o", "r", "t", " ", "f", "i", "l", "e">>,
     <<"C", "h", "e", "c", "k", " ", "a", "u", "t", "o", "m", "a", "t", "i", "o", "n", " ", "o", "p", "p", "o", "r", "t", "u", "n", "i", "t", "i", "e", "s", " ", "i", "n", " ", "c", "o", "n", "t", "r", "a", "c", "t">>,
     <<"O", "p", "e", "n", " ", "r", "e", "s", "u", "m", "e", " ", "d", "o", "c", "u", "m", "e", "n", "t">>,
     <<"F", "i", "n", "d", " ", "t", "h", "e", "s", "i", "s", " ", "P", "D", "F", " ", "f", "i", "l", "e">> >>

(* --------------------------- the Streamlit session ----------------------- *)

\* s.startswith(prefix)
StartsWith(prefix, s) == Len(prefix) <= Len(s) /\ SubSeq(s, 1, Len(prefix)) = prefix

\* Path(p).name for a path string
BaseName(p) ==
  LET slashes == {k \in 1..Len(p) : p[k] = "/"}
  IN IF slashes = {} THEN p
     ELSE SubSeq(p, (CHOOSE k \in slashes : \A j \in slashes : k >= j) + 1, Len(p))

\* Path(p).suffix.lower(): the last dot of the name and what follows it
Suffix(p) ==
  LET name == BaseName(p)
      dots == {k \in 2..Len(name) : name[k] = "."}
  IN IF dots = {} \/ name[Len(name)] = "." THEN <<>>
     ELSE ToLower(SubSeq(name, CHOOSE k \in dots : \A j \in dots : k >= j, Len(name)))

\* get_file_type, lines 349-365
GetFileType(extension) ==
  CASE extension = <<".", "p", "d", "f">> -> "PDF"
    [] extension \in {<<".", "d", "o", "c">>, <<".", "d", "o", "c", "x">>} -> "Word Document"
    [] extension = <<".", "t", "x", "t">> -> "Text File"
    [] extension \in {<<".", "p", "n", "g">>, <<".", "j", "p", "g">>, <<".", "j", "p", "e", "g">>, <<".", "g", "i", "f">>} -> "Image"
    [] extension \in {<<".", "x", "l", "s", "x">>, <<".", "x", "l", "s">>} -> "Excel Spreadsheet"
    [] extension \in {<<".", "p", "p", "t", "x">>, <<".", "p", "p", "t">>} -> "PowerPoint Presentation"
    [] OTHER -> "Unknown"

\* the options of the three analysis type select boxes
AnalysisTypes ==
  <<"Document Summary", "Key Information Extraction",
    "Automation Opportunities", "Content Analysis">>

\* the attributes the program keeps in st.session_state
SessionKeys ==
  {"selected_file", "selected_file_info", "voice_analysis_type",
   "text_analysis_type", "voice_command_used"}

\* hasattr(st.session_state, key)
HasAttr(session, key) == key \in DOMAIN session

\* st.session_state.key = value
SetAttr(session, key, value) ==
  [k \in DOMAIN session \cup {key} |-> IF k = key THEN value ELSE session[k]]

\* delattr(st.session_state, key)
DelAttr(session, key) == [k \in DOMAIN session \ {key} |-> session[k]]

\* a session in which nothing has been stored
EmptySession == [k \in {} |-> TRUE]

\* get_file_info, lines 331-348: the record of a file whose stat succeeds,
\* and the one returned when stat raises
FileInfo(file_path) ==
  [name |-> BaseName(file_path), size_mb |-> 1,
   type |-> GetFileType(Suffix(file_path))]

FileInfoError == [error |-> "stat failed"]

\* simulated_file_info of lines 660-666
SimulatedFileInfo(name) ==
  [name |-> name, size_mb |-> 1, type |-> GetFileType(Suffix(name))]

\* f"/demo/voice/{filename}"
DemoPath(name) == <<"/", "d", "e", "m", "o", "/", "v", "o", "i", "c", "e", "/">> \o name

\* lines 937-956: what a run of the script shows of the Selected File
\* section for the session it finds
Render(session) ==
  IF ~(HasAttr(session, "selected_file") /\ HasAttr(session, "selected_file_info"))
  THEN [section |-> "hidden", source_text |-> "none",
        analysis_type_selected |-> "none"]
  ELSE LET source ==
             IF HasAttr(session, "voice_analysis_type")
             THEN [text |-> "Voice Command", type |-> session["voice_analysis_type"]]
             ELSE IF HasAttr(session, "text_analysis_type")
             THEN [text |-> "Text Input", type |-> session["text_analysis_type"]]
             ELSE [text |-> "Manual", type |-> "Document Summary"]
       IN [section |-> IF {"name", "size_mb", "type"}
                            \subseteq DOMAIN session["selected_file_info"]
                       THEN "shown" ELSE "broken",
           source_text |-> source.text,
           analysis_type_selected |-> source.type]

(* ------------------------- the handlers of the page ---------------------- *)

\* the strings analyze_with_gemini returns without a client (line 401) and
\* when the API call raises (line 506)
NotAvailableMessage == <<"G", "e", "m", "i", "n", "i", " ", "A", "I", " ", "n", "o", "t", " ", "a", "v", "a", "i", "l", "a", "b", "l", "e", ".", " ", "P", "l", "e", "a", "s", "e", " ", "c", "h", "e", "c", "k", " ", "y", "o", "u", "r", " ", "c", "o", "n", "f", "i", "g", "u", "r", "a", "t", "i", "o", "n", ".">>
AnalysisErrorPrefix == <<"A", "n", "a", "l", "y", "s", "i", "s", " ", "e", "r", "r", "o", "r", ":", " ">>
ApiErrorMessage == AnalysisErrorPrefix \o <<"q", "u", "o", "t", "a">>

\* what generate_content can do: answer with a text, answer with a text
\* that begins with the word Error, answer with no text, or raise
GeminiBehaviours == {"text", "error_text", "no_text", "raises"}

\* analyze_with_gemini, lines 398-506
AnalyzeWithGemini(client, behaviour) ==
  IF ~client THEN NotAvailableMessage
  ELSE CASE behaviour = "raises" -> ApiErrorMessage
         [] behaviour = "text" -> <<"S", "u", "m", "m", "a", "r", "y", ":", " ", "f", "i", "n", "e">>
         [] behaviour = "error_text" -> <<"E", "r", "r", "o", "r", "s", " ", "f", "o", "u", "n", "d", " ", "i", "n", " ", "t", "h", "e", " ", "d", "o", "c", "u", "m", "e", "n", "t">>
         [] OTHER -> <<>>

\* analysis_result and not analysis_result.startswith("Error"), lines 892, 1202
Succeeded(analysis_result) ==
  analysis_result # <<>> /\ ~StartsWith(<<"E", "r", "r", "o", "r">>, analysis_result)

\* the file on disk the text tab and the voice search can find
RealFile == <<"/", "h", "o", "m", "e", "/", "u", "/", "D", "o", "c", "s", "/", "r", "e", "p", "o", "r", "t", ".", "p", "d", "f">>
\* a path typed into the text tab that names no file
MissingFile == <<"/", "h", "o", "m", "e", "/", "u", "/", "n", "o", "n", "e", ".", "p", "d", "f">>
\* the commands heard by the microphone
TranscribedCommands == { <<"f", "i", "n", "d", " ", "r", "e", "p", "o", "r", "t", ".", "p", "d", "f">>, <<"c", "h", "e", "c", "k", " ", "c", "o", "n", "t", "e", "n", "t", " ", "o", "f", " ", "r", "e", "p", "o", "r", "t", ".", "p", "d", "f">> }

\* the demo commands the user picks in the simulator
SimulatedChoices == {1, 4, 5}

\* the analysis types the user picks in the select boxes
ChosenTypes == {"Document Summary", "Content Analysis"}

\* no analysis has been run since the page was last redrawn
NoAnalysis ==
  [handler |-> "none", analysis_result |-> <<>>, message |-> "none", appended |-> <<>>]

(* ------------------------------- state ---------------------------------- *)

VARIABLES
  platform,          \* platform.system()
  fs,                \* the nodes of the filesystem, in listing order
  fault,             \* the restricted directory, if any
  filename,          \* the argument of search_for_file
  pc,                \* "start", "scan", "sort", "return", "done" or "raised"
  search_locations,  \* the catalog built at the start of the call
  loc,               \* index of the location the for loop is at
  found_files,       \* the matches collected so far, with repetitions
  unique_files,      \* found_files without repetitions, then ranked
  result,            \* the returned list
  vanished,          \* the found file another process deleted before the sort
  analysis_history,  \* self.analysis_history of the analyzer
  temp_dir,          \* self.temp_dir of the analyzer
  calls,             \* how many times search_for_file has been invoked
  earlier,           \* what the invocation before this one saw and returned
  voice_text,        \* the argument of process_voice_command
  command_result,    \* the dictionary process_voice_command returned
  session_state,     \* st.session_state: the attributes set, with their values
  gemini_client,     \* does the analyzer hold a Gemini client
  speech_available,  \* SPEECH_AVAILABLE and analyzer.recognizer
  selected_via,      \* how the selected file was selected: "voice", "text", "none"
  last_analysis      \* the analysis the page shows: handler, result, message, log

\* the variables of one call of search_for_file
searchVars == <<platform, fs, fault, filename, pc, search_locations, loc,
                found_files, unique_files, result, vanished>>

\* everything that lives outside one call of search_for_file
\* the variables of the page
pageVars == <<session_state, gemini_client, speech_available, selected_via, last_analysis>>

outside == <<analysis_history, temp_dir, calls, earlier, voice_text, command_result,
             pageVars>>

vars == <<searchVars, outside>>

tInv == <<"i", "n", "v">>
tUpper == <<"I", "N", "V", ".", "P">>
tNone == <<"z">>

tNested == <<"a", "/", "b", "/", "c", "/", "i", "n", "v", ".", "p">>

\* the search terms tried: a keyword, an exact name, the same name in upper
\* case, a term nothing contains, and a name with directories in front
Terms == {tInv, fInv, tUpper, tNone, tNested}

\* no bulk files, as many as make the matches of a keyword 15 on a
\* case-sensitive platform, and more
BulkChoices == {0, MaxBulk - 5, MaxBulk}

\* Path(tempfile.gettempdir()) / "voice_analyzer"
TempDir == <<"tmp", "voice_analyzer">>

\* the page plays no part
PageClosed ==
  /\ session_state = EmptySession
  /\ gemini_client = TRUE
  /\ speech_available = FALSE
  /\ selected_via = "none"
  /\ last_analysis = NoAnalysis

\* process_voice_command has not been called
NoResult == [filename |-> NoFilename, analysis_type |-> "none"]

\* no invocation has gone before
NoCall == [seen |-> <<>>, outcome |-> "none", result |-> <<>>]

Init ==
  /\ platform \in Platforms
  /\ filename \in Terms
  /\ \E bulk \in BulkChoices, pat \in MTimePatterns, layout \in Layouts :
       fs = Nodes(platform, bulk, pat, layout)
  /\ fault \in Faults(platform)
  /\ pc = "start"
  /\ search_locations = <<>>
  /\ loc = 0
  /\ found_files = <<>>
  /\ unique_files = <<>>
  /\ result = <<>>
  /\ vanished = {}
  /\ analysis_history = <<>>
  /\ temp_dir = TempDir
  /\ calls = 1
  /\ earlier = NoCall
  /\ voice_text = <<>>
  /\ command_result = NoResult
  /\ PageClosed

\* the files another process deletes while the call runs: those named inv.p
Volatile(p) == ToLower(Name(p)) = fInv

\* x.stat() raises for a file that is gone
StatFails(p) == \E v \in vanished : SamePath(platform, v, p)

(* ------------------------------ actions --------------------------------- *)

\* Path("D:/").exists() of line 268, evaluated outside every try block
DriveProbeRaises ==
  platform = "Windows" /\ StatRaises(fault, Key(platform, <<dDrive>>))

\* lines 255-288: the catalog is built
BuildCatalog ==
  /\ pc = "start"
  /\ ~DriveProbeRaises
  /\ search_locations' =
       SearchLocations(platform, Exists(fs, Key(platform, <<dDrive>>)))
  /\ loc' = 1
  /\ pc' = "scan"
  /\ UNCHANGED <<platform, fs, fault, filename, found_files, unique_files,
                 result, vanished>>
  /\ UNCHANGED outside

\* the same lines when the existence check of the D: drive raises: the
\* exception leaves search_for_file
BuildCatalogRaises ==
  /\ pc = "start"
  /\ DriveProbeRaises
  /\ pc' = "raised"
  /\ UNCHANGED <<platform, fs, fault, filename, search_locations, loc,
                 found_files, unique_files, result, vanished>>
  /\ UNCHANGED outside

InLoop == pc = "scan" /\ loc <= Len(search_locations)

Location == search_locations[loc]

\* location.exists() or exact_match.exists() raises
ExistsRaisesAt(l) ==
  \/ StatRaises(fault, Key(platform, l))
  \/ StatRaises(fault, Key(platform, JoinPath(platform, l, filename)))

\* location.exists() returns True
ExistsAt(l) == Exists(fs, Key(platform, l))

\* the entries of the direct listing and of the recursive walk
ListingOf(l) == IterDir(platform, fs, l)

\* the walk starts at or above the directory that cannot be listed
WalkCrosses(l) == IsPrefix(Key(platform, l), fault.key)

WalkOf(l) ==
  LET listed(e) == ~Unlisted(fault, e.key)
  IN IF fault.mode = "noRead" /\ WalkCrosses(l)
     THEN SelectSeq(RGlob(platform, fs, l), listed)
     ELSE RGlob(platform, fs, l)

\* os.listdir(location) raises
ListingRaisesAt(l) == ListRaises(fault, Key(platform, l))

\* the loop over iterdir() raises, in the listing or in is_file()
IterdirRaisesAt(l) ==
  \/ ListingRaisesAt(l)
  \/ \E k \in 1..Len(ListingOf(l)) : StatRaises(fault, ListingOf(l)[k].key)

\* the loop over rglob("*") raises in is_file()
RglobRaisesAt(l) ==
  \E k \in 1..Len(WalkOf(l)) : StatRaises(fault, WalkOf(l)[k].key)

ExistsRaises == ExistsRaisesAt(Location)
LocationExists == ExistsAt(Location)
Listing == ListingOf(Location)
Walk == WalkOf(Location)
ListingRaises == ListingRaisesAt(Location)
IterdirRaises == IterdirRaisesAt(Location)
RglobRaises == RglobRaisesAt(Location)

\* lines 292-293: the location does not exist
ScanMissing ==
  /\ InLoop
  /\ ~ExistsRaises
  /\ ~LocationExists
  /\ loc' = loc + 1
  /\ UNCHANGED <<platform, fs, fault, filename, pc, search_locations,
                 found_files, unique_files, result, vanished>>
  /\ UNCHANGED outside

\* break written for continue: the error ends the whole loop
ScanExistsErrorBreaks ==
  /\ InLoop
  /\ ExistsRaises
  /\ loc' = Len(search_locations) + 1
  /\ UNCHANGED <<platform, fs, fault, filename, pc, search_locations,
                 found_files, unique_files, result, vanished>>
  /\ UNCHANGED outside

\* lines 292-298 and 318-319: an existence check raises, the location is left
ScanExistsError ==
  /\ InLoop
  /\ ExistsRaises
  /\ loc' = loc + 1
  /\ UNCHANGED <<platform, fs, fault, filename, pc, search_locations,
                 found_files, unique_files, result, vanished>>
  /\ UNCHANGED outside

\* lines 295-306: the direct listing raises; what was found before it stays
ScanIterdirError ==
  /\ InLoop
  /\ ~ExistsRaises
  /\ LocationExists
  /\ IterdirRaises
  /\ found_files' = found_files
       \o ExactMatch(platform, fs, Location, filename)
       \o (IF ListingRaises THEN <<>>
           ELSE DirectMatches(fs, UntilRaise(fault, Listing), filename))
  /\ loc' = loc + 1
  /\ UNCHANGED <<platform, fs, fault, filename, pc, search_locations,
                 unique_files, result, vanished>>
  /\ UNCHANGED outside

\* lines 295-316: the recursive scan raises; what was found before it stays
ScanRglobError ==
  /\ InLoop
  /\ ~ExistsRaises
  /\ LocationExists
  /\ ~IterdirRaises
  /\ RglobRaises
  /\ found_files' = found_files
       \o ExactMatch(platform, fs, Location, filename)
       \o DirectMatches(fs, Listing, filename)
       \o RecursiveMatches(fs, Location, UntilRaise(fault, Walk), filename)
  /\ loc' = loc + 1
  /\ UNCHANGED <<platform, fs, fault, filename, pc, search_locations,
                 unique_files, result, vanished>>
  /\ UNCHANGED outside

\* lines 292-316: all three phases of one location run to their end
ScanLocation ==
  /\ InLoop
  /\ ~ExistsRaises
  /\ LocationExists
  /\ ~IterdirRaises
  /\ ~RglobRaises
  /\ found_files' = found_files
       \o ExactMatch(platform, fs, Location, filename)
       \o DirectMatches(fs, Listing, filename)
       \o RecursiveMatches(fs, Location, Walk, filename)
  /\ loc' = loc + 1
  /\ UNCHANGED <<platform, fs, fault, filename, pc, search_locations,
                 unique_files, result, vanished>>
  /\ UNCHANGED outside

\* the loop is left as soon as 20 matches are collected
RemoveDuplicatesAtTwenty ==
  /\ pc = "scan"
  /\ loc > Len(search_locations) \/ Len(found_files) >= 20
  /\ unique_files' = Dedup(found_files, {})
  /\ pc' = "sort"
  /\ UNCHANGED <<platform, fs, fault, filename, search_locations, loc,
                 found_files, result, vanished>>
  /\ UNCHANGED outside

\* line 322: the loop is over, the repetitions are removed
RemoveDuplicates ==
  /\ pc = "scan"
  /\ loc > Len(search_locations)
  /\ unique_files' = Dedup(found_files, {})
  /\ pc' = "sort"
  /\ UNCHANGED <<platform, fs, fault, filename, search_locations, loc,
                 found_files, result, vanished>>
  /\ UNCHANGED outside

\* lines 324-325: every stat succeeds and the list is sorted
Sort ==
  /\ pc = "sort"
  /\ unique_files' = SortNewestFirst(platform, fs, unique_files)
  /\ pc' = "return"
  /\ UNCHANGED <<platform, fs, fault, filename, search_locations, loc,
                 found_files, result, vanished>>
  /\ UNCHANGED outside

\* the file whose stat raised is taken out of the list
SortStatFailsDrops ==
  /\ pc = "sort"
  /\ \E k \in 1..Len(unique_files) :
       /\ Volatile(unique_files[k])
       /\ vanished' = {unique_files[k]}
       /\ unique_files' = [j \in 1..(Len(unique_files) - 1) |->
                             IF j < k THEN unique_files[j] ELSE unique_files[j + 1]]
  /\ pc' = "return"
  /\ UNCHANGED <<platform, fs, fault, filename, search_locations, loc,
                 found_files, result>>
  /\ UNCHANGED outside

\* lines 324-327: another process has deleted the k-th file since the scan;
\* its stat raises while the keys are computed, before any element has
\* moved, and the except clause leaves the list as it was
SortStatFails ==
  /\ pc = "sort"
  /\ \E k \in 1..Len(unique_files) :
       /\ Volatile(unique_files[k])
       /\ vanished' = {unique_files[k]}
  /\ pc' = "return"
  /\ UNCHANGED <<platform, fs, fault, filename, search_locations, loc,
                 found_files, unique_files, result>>
  /\ UNCHANGED outside

\* the search leaves a trace in the analyzer's history
ReturnLogsSearch ==
  /\ pc = "return"
  /\ result' = Truncate(unique_files, MaxResults)
  /\ pc' = "done"
  /\ analysis_history' = Append(analysis_history, [file_path |-> filename])
  /\ UNCHANGED <<platform, fs, fault, filename, search_locations, loc,
                 found_files, unique_files, vanished, temp_dir, calls, earlier,
                 voice_text, command_result, pageVars>>

\* line 329
Return ==
  /\ pc = "return"
  /\ result' = Truncate(unique_files, MaxResults)
  /\ pc' = "done"
  /\ UNCHANGED <<platform, fs, fault, filename, search_locations, loc,
                 found_files, unique_files, vanished>>
  /\ UNCHANGED outside

\* the k-th node of the filesystem is the file that has vanished
Gone(node) == \E v \in vanished : node.key = Key(platform, v)

\* lines 253-254 and 288: search_for_file is invoked once more with the same
\* term; its locals are new, nothing of the call before is kept.  By now the
\* file another process was deleting during that call is gone.
SearchAgain ==
  /\ pc \in {"done", "raised"}
  /\ calls < MaxCalls
  /\ calls' = calls + 1
  /\ earlier' = [seen |-> fs, outcome |-> pc, result |-> result]
  /\ fs' = SelectSeq(fs, LAMBDA node : ~Gone(node))
  /\ vanished' = {}
  /\ pc' = "start"
  /\ search_locations' = <<>>
  /\ loc' = 0
  /\ found_files' = <<>>
  /\ unique_files' = <<>>
  /\ result' = <<>>
  /\ UNCHANGED <<platform, fault, filename, analysis_history, temp_dir,
                 voice_text, command_result, pageVars>>

Next ==
  \/ BuildCatalog
  \/ BuildCatalogRaises
  \/ ScanMissing
  \/ ScanExistsError
  \/ ScanIterdirError
  \/ ScanRglobError
  \/ ScanLocation
  \/ RemoveDuplicates
  \/ Sort
  \/ SortStatFails
  \/ Return

Spec == Init /\ [][Next]_vars

\* what log_analysis (lines 508-519) appends, without timestamp and session id
LogEntry(file_path, analysis_type, success, result_length, voice_used) ==
  [file_path |-> file_path, analysis_type |-> analysis_type, success |-> success,
   result_length |-> result_length, voice_command |-> voice_used]

\* the histories an analyzer can hold when a search starts
Histories ==
  { <<>>,
    <<LogEntry(<<"tmp", "voice_analyzer", "uploaded">>, "Document Summary", TRUE, 9, FALSE)>> }

\* repeated invocations on one analyzer
InitRepeat ==
  /\ platform \in Platforms
  /\ filename \in Terms
  /\ \E bulk \in {0, MaxBulk - 5}, pat \in {"ties", "asc"}, layout \in Layouts :
       fs = Nodes(platform, bulk, pat, layout)
  /\ fault \in Faults(platform)
  /\ pc = "start"
  /\ search_locations = <<>>
  /\ loc = 0
  /\ found_files = <<>>
  /\ unique_files = <<>>
  /\ result = <<>>
  /\ vanished = {}
  /\ analysis_history \in Histories
  /\ temp_dir = TempDir
  /\ calls = 1
  /\ earlier = NoCall
  /\ voice_text = <<>>
  /\ command_result = NoResult
  /\ PageClosed

NextRepeat ==
  \/ Next
  \/ SearchAgain

SpecRepeat == InitRepeat /\ [][NextRepeat]_vars

(* --------------------- process_voice_command on its own ------------------ *)

\* how a spoken command starts, what it names and how it ends
Openers ==
  { <<"A", "n", "a", "l", "y", "z", "e", " ", "m", "y", " ">>,
    <<"s", "u", "m", "m", "a", "r", "i", "z", "e", " ", "t", "h", "e", " ">>,
    <<"f", "i", "n", "d", " ">>,
    <<"c", "o", "n", "t", "e", "n", "t", " ", "o", "f", " ">>,
    <<" ", "c", "h", "e", "c", "k", " ">>,
    <<"a", "u", "t", "o", "m", "a", "t", "e", " ", "a", "n", "d", " ", "f", "i", "n", "d", " ">>,
    <<"g", "e", "t", " ", "a", " ", "s", "u", "m", "m", "a", "r", "y", " ", "o", "f", " ">>,
    <<"o", "p", "e", "n", " ">>,
    <<"r", "e", "v", "i", "e", "w", " ", "q", "u", "a", "l", "i", "t", "y", " ", "o", "f", " ", "a", "u", "t", "o", "m", "a", "t", "i", "c", " ">> }

Subjects ==
  { <<"c", "o", "v", "e", "r", " ", "l", "e", "t", "t", "e", "r">>,
    <<"r", "e", "s", "u", "m", "e">>,
    <<"c", "v">>,
    <<"r", "e", "p", "o", "r", "t">>,
    <<"i", "n", "v", "o", "i", "c", "e">>,
    <<"i", "q", "a", "c">>,
    <<"p", "r", "e", "s", "e", "n", "t", "a", "t", "i", "o", "n">>,
    <<"s", "p", "r", "e", "a", "d", "s", "h", "e", "e", "t">>,
    <<"c", "o", "n", "t", "r", "a", "c", "t">>,
    <<"p", "r", "o", "p", "o", "s", "a", "l">>,
    <<"t", "h", "e", "s", "i", "s">>,
    <<"a", "s", "s", "i", "g", "n", "m", "e", "n", "t">>,
    <<"n", "o", "t", "e", "s">>,
    <<"r", "e", "p", "o", "r", "t", " ", "a", "n", "d", " ", "i", "n", "v", "o", "i", "c", "e">>,
    <<"m", "e", "m", "o">> }

Closers ==
  { <<>>,
    <<" ", "P", "D", "F">>,
    <<" ", "d", "o", "c", "u", "m", "e", "n", "t">>,
    <<" ", "f", "i", "l", "e", " ">> }

\* the commands the hint of line 625 and the tips of line 1297 suggest
HintCommands ==
  { <<"P", "r", "o", "c", "e", "s", "s", " ", "I", "Q", "A", "C", " ", "d", "o", "c", "u", "m", "e", "n", "t">>,
    <<"A", "n", "a", "l", "y", "z", "e", " ", "m", "y", " ", "r", "e", "s", "u", "m", "e", " ", "P", "D", "F", " ", "f", "o", "r", " ", "k", "e", "y", " ", "i", "n", "f", "o", "r", "m", "a", "t", "i", "o", "n">> }

\* the transcribed commands tried
VoiceCommands ==
  {o \o d \o c : o \in Openers, d \in Subjects, c \in Closers}
    \cup Range(ExampleCommands) \cup HintCommands

InitVoice ==
  /\ platform = "Linux"
  /\ filename = <<>>
  /\ fs = <<>>
  /\ fault = NoFault
  /\ pc = "idle"
  /\ search_locations = <<>>
  /\ loc = 0
  /\ found_files = <<>>
  /\ unique_files = <<>>
  /\ result = <<>>
  /\ vanished = {}
  /\ analysis_history = <<>>
  /\ temp_dir = TempDir
  /\ calls = 0
  /\ earlier = NoCall
  /\ voice_text \in VoiceCommands
  /\ command_result = NoResult
  /\ PageClosed

\* lines 180-251: process_voice_command(voice_text) returns
ProcessCommand ==
  /\ command_result = NoResult
  /\ command_result' = ProcessVoiceCommand(voice_text)
  /\ UNCHANGED <<searchVars, analysis_history, temp_dir, calls, earlier, voice_text,
                 pageVars>>

NextVoice == ProcessCommand

SpecVoice == InitVoice /\ [][NextVoice]_vars

(* -------------------------- one session of the page ---------------------- *)

\* the session state after a voice selection, lines 614-617 and 668-671
VoiceSelected(session, file_path, file_info, analysis_type) ==
  SetAttr(SetAttr(SetAttr(SetAttr(session,
    "selected_file", file_path),
    "selected_file_info", file_info),
    "voice_analysis_type", analysis_type),
    "voice_command_used", TRUE)

\* a selection in the text tab that stores the path and the type only
TextSelectedNoInfo(session, file_path, file_info, analysis_type) ==
  SetAttr(SetAttr(session,
    "selected_file", file_path),
    "text_analysis_type", analysis_type)

\* the session state after a selection in the text tab, lines 799-801 and 811-813
TextSelected(session, file_path, file_info, analysis_type) ==
  SetAttr(SetAttr(SetAttr(session,
    "selected_file", file_path),
    "selected_file_info", file_info),
    "text_analysis_type", analysis_type)

\* Select New File with voice_analysis_type missing from keys_to_clear
ClearedKeepsVoiceType(session) ==
  DelAttr(DelAttr(DelAttr(DelAttr(session,
    "selected_file"), "selected_file_info"),
    "text_analysis_type"), "voice_command_used")

\* the session state after Select New File, lines 1270-1274
Cleared(session) ==
  DelAttr(DelAttr(DelAttr(DelAttr(DelAttr(session,
    "selected_file"), "selected_file_info"), "voice_analysis_type"),
    "text_analysis_type"), "voice_command_used")

\* process_voice_command on the commands heard and on the demo commands
\* picked, lines 580 and 650
HeardCommand == [t \in TranscribedCommands |-> ProcessVoiceCommand(t)]
SimulatedCommand == [k \in SimulatedChoices |-> ProcessVoiceCommand(ExampleCommands[k])]

\* search_for_file finds the file for this name: the name is part of the
\* file's name (lines 300-314)
FindsRealFile(name) ==
  \E k \in 0..(Len(BaseName(RealFile)) - Len(name)) :
    SubSeq(BaseName(RealFile), k + 1, k + Len(name)) = name

\* Analyze This File after a heard command found the file, lines 569-618
VoiceAnalyzeThisFile ==
  /\ pc = "page"
  /\ speech_available
  /\ \E transcribed_text \in TranscribedCommands :
       LET command == HeardCommand[transcribed_text]
       IN /\ command.filename # NoFilename
          /\ FindsRealFile(command.filename)
          /\ session_state' = VoiceSelected(session_state, RealFile, FileInfo(RealFile),
                                            command.analysis_type)
  /\ selected_via' = "voice"
  /\ last_analysis' = NoAnalysis
  /\ UNCHANGED <<searchVars, analysis_history, temp_dir, calls, earlier, voice_text,
                 command_result, gemini_client, speech_available>>

\* Simulate Voice Command, lines 648-673
SimulateVoiceCommand ==
  /\ pc = "page"
  /\ ~speech_available
  /\ \E k \in SimulatedChoices :
       LET command == SimulatedCommand[k]
       IN IF command.filename # NoFilename
          THEN /\ session_state' = VoiceSelected(session_state, DemoPath(command.filename),
                                                 SimulatedFileInfo(command.filename),
                                                 command.analysis_type)
               /\ selected_via' = "voice"
          ELSE UNCHANGED <<session_state, selected_via>>
  /\ last_analysis' = NoAnalysis
  /\ UNCHANGED <<searchVars, analysis_history, temp_dir, calls, earlier, voice_text,
                 command_result, gemini_client, speech_available>>

\* Select This File after Search by Filename found the file, lines 761-802
TextSelectThisFile ==
  /\ pc = "page"
  /\ \E analysis_type \in ChosenTypes :
       session_state' = TextSelected(session_state, RealFile, FileInfo(RealFile),
                                     analysis_type)
  /\ selected_via' = "text"
  /\ last_analysis' = NoAnalysis
  /\ UNCHANGED <<searchVars, analysis_history, temp_dir, calls, earlier, voice_text,
                 command_result, gemini_client, speech_available>>

\* Validate File Path, lines 805-817; get_file_info answers with the
\* error dictionary when stat fails
ValidateFilePath ==
  /\ pc = "page"
  /\ \E file_path_input \in {RealFile, MissingFile}, analysis_type \in ChosenTypes,
        file_info \in {FileInfo(RealFile), FileInfoError} :
       IF file_path_input = RealFile
       THEN /\ session_state' = TextSelected(session_state, file_path_input, file_info,
                                             analysis_type)
            /\ selected_via' = "text"
       ELSE UNCHANGED <<session_state, selected_via>>
  /\ last_analysis' = NoAnalysis
  /\ UNCHANGED <<searchVars, analysis_history, temp_dir, calls, earlier, voice_text,
                 command_result, gemini_client, speech_available>>

\* the path the upload handler saves the file under, line 870, without the
\* random part of the name
UploadedPath == temp_dir \o <<"uploaded">>

\* the upload handler, lines 867-934: the run is logged when it succeeded
AnalyzeUploaded ==
  /\ pc = "page"
  /\ Len(analysis_history) < MaxAnalyses
  /\ \E behaviour \in GeminiBehaviours, analysis_type \in ChosenTypes :
       LET analysis_result == AnalyzeWithGemini(gemini_client, behaviour)
           entry == LogEntry(UploadedPath, analysis_type, TRUE, Len(analysis_result), FALSE)
       IN IF Succeeded(analysis_result)
          THEN /\ analysis_history' = Append(analysis_history, entry)
               /\ last_analysis' = [handler |-> "upload", analysis_result |-> analysis_result,
                                    message |-> "success", appended |-> <<entry>>]
          ELSE /\ analysis_history' = analysis_history
               /\ last_analysis' = [handler |-> "upload", analysis_result |-> analysis_result,
                                    message |-> "failed", appended |-> <<>>]
  /\ UNCHANGED <<searchVars, temp_dir, calls, earlier, voice_text, command_result,
                 session_state, gemini_client, speech_available, selected_via>>

\* START GEMINI AI ANALYSIS on the selected file, lines 1001-1320
StartAnalysis ==
  /\ pc = "page"
  /\ Len(analysis_history) < MaxAnalyses
  /\ Render(session_state).section = "shown"
  /\ \E behaviour \in GeminiBehaviours,
        analysis_type_final \in {Render(session_state).analysis_type_selected,
                                 "Content Analysis"} :
       LET analysis_result == AnalyzeWithGemini(gemini_client, behaviour)
           voice_used == HasAttr(session_state, "voice_command_used")
           entry == IF Succeeded(analysis_result)
                    THEN LogEntry(session_state["selected_file"], analysis_type_final,
                                  TRUE, Len(analysis_result), voice_used)
                    ELSE LogEntry(session_state["selected_file"], analysis_type_final,
                                  FALSE, 0, voice_used)
       IN /\ analysis_history' = Append(analysis_history, entry)
          /\ last_analysis' =
               [handler |-> "selected", analysis_result |-> analysis_result,
                message |-> IF Succeeded(analysis_result) THEN "success" ELSE "failed",
                appended |-> <<entry>>]
  /\ UNCHANGED <<searchVars, temp_dir, calls, earlier, voice_text, command_result,
                 session_state, gemini_client, speech_available, selected_via>>

\* Select New File under the results of a successful analysis, lines 1268-1275
SelectNewFile ==
  /\ pc = "page"
  /\ last_analysis.handler = "selected"
  /\ last_analysis.message = "success"
  /\ session_state' = Cleared(session_state)
  /\ selected_via' = "none"
  /\ last_analysis' = NoAnalysis
  /\ UNCHANGED <<searchVars, analysis_history, temp_dir, calls, earlier, voice_text,
                 command_result, gemini_client, speech_available>>

\* a session starts with an empty session state and a new analyzer,
\* lines 59-73 and 682-685
InitUI ==
  /\ platform = "Linux"
  /\ filename = <<>>
  /\ fs = <<>>
  /\ fault = NoFault
  /\ pc = "page"
  /\ search_locations = <<>>
  /\ loc = 0
  /\ found_files = <<>>
  /\ unique_files = <<>>
  /\ result = <<>>
  /\ vanished = {}
  /\ analysis_history = <<>>
  /\ temp_dir = TempDir
  /\ calls = 0
  /\ earlier = NoCall
  /\ voice_text = <<>>
  /\ command_result = NoResult
  /\ session_state = EmptySession
  /\ gemini_client \in BOOLEAN
  /\ speech_available \in BOOLEAN
  /\ selected_via = "none"
  /\ last_analysis = NoAnalysis

NextUI ==
  \/ VoiceAnalyzeThisFile
  \/ SimulateVoiceCommand
  \/ TextSelectThisFile
  \/ ValidateFilePath
  \/ AnalyzeUploaded
  \/ StartAnalysis
  \/ SelectNewFile

SpecUI == InitUI /\ [][NextUI]_vars

TypeOK ==
  /\ platform \in Platforms
  /\ pc \in {"idle", "page", "start", "scan", "sort", "return", "done", "raised"}
  /\ loc \in 0..(Len(search_locations) + 1)
  /\ Cardinality(vanished) <= 1

(* ------------------------- notions used by the claims ------------------- *)

\* the call has returned its list
Returned == pc = "done"

\* how often a path string occurs in a list
Occurrences(files, p) == Cardinality({k \in 1..Len(files) : Str(files[k]) = Str(p)})

\* the modification time of a returned path can be read
Readable(p) == ~StatFails(p)

\* the directories the spec calls priority directories
PriorityDirs(os) ==
  { Home(os) \o <<dDownloads>>, Home(os) \o <<dDocuments>>, Home(os) \o <<dDesktop>> }

\* nothing keeps the program from stat'ing the entries of d and listing d
Accessible(d) ==
  /\ ~StatRaises(fault, Key(platform, Append(d, <<"x">>)))
  /\ ~ListRaises(fault, Key(platform, d))

\* the file nodes that lie directly in catalog directory d and whose name
\* contains the term, compared without regard to case
DirectHits(d) ==
  {k \in 1..Len(fs) : /\ fs[k].kind = "file"
                      /\ Parent(fs[k].path) = d
                      /\ Contains(ToLower(filename), ToLower(Name(fs[k].path)))}

\* a regular file named exactly as the term lies directly in d
HasExactFile(d) ==
  \E k \in 1..Len(fs) : fs[k].kind = "file" /\ fs[k].path = Append(d, filename)

\* an access error is met while location l is scanned
ErrorIn(l) ==
  \/ ExistsRaisesAt(l)
  \/ ExistsAt(l) /\ (IterdirRaisesAt(l) \/ RglobRaisesAt(l))

\* st_mtime of a path as the filesystem recorded it
MTimeOf(p) == StatMTime(fs, Key(platform, p))

\* the number of distinct paths the scan collected
DistinctFound == Cardinality(Range(found_files))

\* the position at which a collected path was found first
FirstIdx(p) == CHOOSE k \in 1..Len(found_files) :
                 found_files[k] = p /\ \A j \in 1..(k - 1) : found_files[j] # p

\* every directory a catalog of the platform can name
CatalogDirs == Range(SearchLocations(platform, TRUE))

\* no file within the scanned depth of a catalog directory contains the term
NothingMatches ==
  \A k \in 1..Len(fs) : \A d \in CatalogDirs :
    ~ /\ fs[k].kind = "file"
      /\ Len(fs[k].path) - Len(d) \in 1..MaxDepth
      /\ SubSeq(fs[k].key, 1, Len(d)) = Key(platform, d)
      /\ Contains(ToLower(filename), ToLower(Name(fs[k].path)))

(* -------------------------------- C1 ------------------------------------ *)

\* C1: the list search_for_file returns never has more than MaxResults (15)
\* entries, however many matches the directories and phases produced.
C1_LengthCapped == Returned => Len(result) <= MaxResults

\* more than 15 distinct paths were collected and exactly 15 are returned
C1_Witness ==
  /\ Returned
  /\ Cardinality(Range(found_files)) > MaxResults
  /\ Len(result) = MaxResults

(* -------------------------------- C2 ------------------------------------ *)

\* C2: no path string occurs twice in the returned list, also when the same
\* file was located by several phases and through overlapping directories.
C2_NoDuplicatePath ==
  Returned => Cardinality({Str(result[k]) : k \in 1..Len(result)}) = Len(result)

\* a returned file of Downloads/Telegram Desktop that was collected at least
\* four times: by the recursive scan of Downloads and by the exact-name
\* check, the listing and the recursive scan of Telegram Desktop
C2_Witness ==
  /\ Returned
  /\ \E k \in 1..Len(result) :
       /\ Parent(result[k]) = Home(platform) \o <<dDownloads, dTelegram>>
       /\ Occurrences(found_files, result[k]) >= 4

(* -------------------------------- C3 ------------------------------------ *)

\* C3: in every returned list the entries whose modification time can be
\* read are in non-increasing order of modification time, also when the list
\* holds an entry whose stat failed during the ranking.
C3_ReadableEntriesSorted ==
  Returned => \A i, j \in 1..Len(result) :
                (i < j /\ Readable(result[i]) /\ Readable(result[j]))
                  => MTimeOf(result[i]) >= MTimeOf(result[j])

(* -------------------------------- C4 ------------------------------------ *)

\* C4 as stated: a regular file named exactly as the term, directly in an
\* accessible priority directory, is in the returned list whatever else matches.
C4_ExactAlwaysReturned ==
  Returned => \A d \in PriorityDirs(platform) :
                (Accessible(d) /\ HasExactFile(d))
                  => Append(d, filename) \in Range(result)

\* C4: a regular file named exactly as the term, directly in an accessible
\* priority directory, is always among the ranked matches, and it is in the
\* returned list whenever no more than 15 distinct paths were matched.
C4_ExactReturnedUnlessCut ==
  Returned => \A d \in PriorityDirs(platform) :
                (Accessible(d) /\ HasExactFile(d))
                  => /\ Append(d, filename) \in Range(unique_files)
                     /\ DistinctFound <= MaxResults
                          => Append(d, filename) \in Range(result)

\* the exact-name file of a priority directory is returned next to other matches
C4_Witness ==
  /\ Returned
  /\ Len(result) > 1
  /\ \E d \in PriorityDirs(platform) :
       /\ Accessible(d) /\ HasExactFile(d)
       /\ Append(d, filename) \in Range(result)

(* -------------------------------- C5 ------------------------------------ *)

\* C5 as stated: when an access error is met in catalog directory A, the
\* exact-name file of every accessible directory B after A is in the returned
\* list, and the exact-name files collected before A are kept.
C5_ErrorNeverHidesLaterFile ==
  Returned => \A a, b \in 1..Len(search_locations) :
                (/\ a # b
                 /\ ErrorIn(search_locations[a])
                 /\ Accessible(search_locations[b])
                 /\ HasExactFile(search_locations[b]))
                  => /\ Append(search_locations[b], filename) \in Range(unique_files)
                     /\ a < b => Append(search_locations[b], filename) \in Range(result)

\* C5: an access error in catalog directory A does not stop the scan: the
\* exact-name file of every accessible directory before or after A is among
\* the ranked matches, and it is in the returned list whenever no more than
\* 15 distinct paths were matched.
C5_ErrorKeepsScanGoing ==
  Returned => \A a, b \in 1..Len(search_locations) :
                (/\ a # b
                 /\ ErrorIn(search_locations[a])
                 /\ Accessible(search_locations[b])
                 /\ HasExactFile(search_locations[b]))
                  => /\ Append(search_locations[b], filename) \in Range(unique_files)
                     /\ DistinctFound <= MaxResults
                          => Append(search_locations[b], filename) \in Range(result)

\* an error in a middle directory, with the exact-name file of a directory
\* before it and of a directory after it both returned
C5_Witness ==
  /\ Returned
  /\ \E c, a, b \in 1..Len(search_locations) :
       /\ c < a /\ a < b
       /\ ErrorIn(search_locations[a])
       /\ Accessible(search_locations[b]) /\ HasExactFile(search_locations[b])
       /\ Accessible(search_locations[c]) /\ HasExactFile(search_locations[c])
       /\ Append(search_locations[b], filename) \in Range(result)
       /\ Append(search_locations[c], filename) \in Range(result)

(* -------------------------------- C6 ------------------------------------ *)

\* C6: when no file within the scanned depth of a catalog directory matches
\* the term, the call ends by returning the empty list and raises nothing.
C6_EmptyListNoError ==
  (pc \in {"done", "raised"} /\ NothingMatches) => (pc = "done" /\ result = <<>>)

(* -------------------------------- C7 ------------------------------------ *)

\* C7: search_for_file never raises, whichever existence check, listing,
\* traversal or ranking stat raises PermissionError or OSError.
C7_NeverRaises == pc # "raised"

(* -------------------------------- C8 ------------------------------------ *)

\* the paths of the files that lie directly in an accessible catalog
\* directory and whose name contains the term
DirectHitPaths ==
  UNION { {fs[k].path : k \in DirectHits(d)} :
            d \in {l \in Range(search_locations) : Accessible(l)} }

C9_NewestKept ==
  (Returned /\ vanished = {} /\ DistinctFound > MaxResults)
    => /\ Len(result) = MaxResults
       /\ Cardinality(Range(result)) = MaxResults
       /\ Range(result) \subseteq Range(found_files)
       /\ \A r \in Range(result) : \A u \in Range(found_files) \ Range(result) :
            MTimeOf(r) >= MTimeOf(u)

\* a match is left out although it was collected before a returned one
C9_Witness ==
  /\ Returned /\ vanished = {} /\ DistinctFound > MaxResults
  /\ \E r \in Range(result) : \E u \in Range(found_files) \ Range(result) :
       FirstIdx(u) < FirstIdx(r) /\ MTimeOf(r) > MTimeOf(u)

(* -------------------------------- C10 ----------------------------------- *)

\* C10: when a stat fails during the ranking the call still returns, and the
\* returned list is the first 15 distinct collected paths in the order in
\* which they were collected; the file whose stat failed is not taken out.
C10_StatFailureDropsNothing ==
  (Returned /\ vanished # {})
    => /\ Len(result) = (IF DistinctFound < MaxResults THEN DistinctFound
                         ELSE MaxResults)
       /\ Range(result) \subseteq Range(found_files)
       /\ \A i, j \in 1..Len(result) :
            i < j => FirstIdx(result[i]) < FirstIdx(result[j])
       /\ \A r \in Range(result) : \A u \in Range(found_files) \ Range(result) :
            FirstIdx(r) < FirstIdx(u)
       /\ vanished \subseteq Range(unique_files)

\* the file whose stat failed is returned, behind an older file
C10_Witness ==
  /\ Returned
  /\ \E k \in 2..Len(result) :
       /\ result[k] \in vanished
       /\ MTimeOf(result[k]) > MTimeOf(result[1])

(* -------------------------------- C11 ----------------------------------- *)

\* the filesystem is as the invocation before this one saw it
SameFilesystem == earlier.seen = fs /\ vanished = {}

\* an invocation after the first has ended
EndedAgain == earlier.outcome # "none" /\ pc \in {"done", "raised"}

\* C11: two invocations of search_for_file with the same term against the
\* same unchanged filesystem end the same way with the same result sequence,
\* and no step of an invocation changes the filesystem, analysis_history or
\* temp_dir.
C11_IndependentIdempotent ==
  /\ [](EndedAgain /\ SameFilesystem
          => pc = earlier.outcome /\ result = earlier.result)
  /\ [][calls' = calls => /\ fs' = fs
                          /\ analysis_history' = analysis_history
                          /\ temp_dir' = temp_dir]_vars

\* a second invocation on an analyzer with a history has returned several
\* files, the first one having returned too, on an unchanged filesystem
C11_Witness ==
  /\ calls = 2
  /\ pc = "done"
  /\ earlier.outcome = "done"
  /\ SameFilesystem
  /\ Len(result) >= 2
  /\ analysis_history # <<>>

(* -------------------------------- C12 ----------------------------------- *)

\* The deep mode of the spec (sections 3, 4.1, 4.2 and the glossary): the
\* same algorithm over a larger directory list and without the depth cap.
\* search_for_file of src/automation_agent.py has no such mode.

dSystem == <<"S", "y", "s">>
dLibrary == <<"L", "i", "b">>
dSysDrive == <<"C", ":">>

\* the catalog with deep = true: the roots section 4.1 names are added to
\* the catalog of the non-deep search
DeepCatalog(os, nodes) ==
  LET shallow == SearchLocations(os, Exists(nodes, Key(os, <<dDrive>>)))
  IN CASE os = "Windows" ->
            shallow \o SelectSeq(<< <<dSysDrive>>, <<dDrive>> >>,
                                 LAMBDA root : Exists(nodes, Key(os, root)))
       [] os = "Darwin" -> shallow \o << <<>>, <<dSystem>>, <<dLibrary>> >>
       [] OTHER -> << <<>> >> \o shallow

\* step 3 of section 4.2: the substring rule on every file below the
\* directory, without a depth cap
DeepMatches(nodes, entries, term) ==
  LET ok(file_path) == /\ IsFile(nodes, file_path.key)
                       /\ NameMatches(term, Name(file_path.path))
      hits == SelectSeq(entries, ok)
  IN [k \in 1..Len(hits) |-> hits[k].path]

\* what a deep search collects in one directory of its catalog: steps 1 and
\* 3 of section 4.2; an access error ends the directory's contribution
DeepFoundAt(l) ==
  IF ExistsRaisesAt(l) \/ ~ExistsAt(l) THEN <<>>
  ELSE ExactMatch(platform, fs, l, filename)
         \o (IF ListingRaisesAt(l) THEN <<>>
             ELSE DeepMatches(fs, UntilRaise(fault, WalkOf(l)), filename))

\* the files a deep search finds, each named by the key the platform
\* resolves its path to
DeepFound ==
  LET catalog == DeepCatalog(platform, fs)
  IN UNION { {Key(platform, p) : p \in Range(DeepFoundAt(catalog[k]))} :
               k \in 1..Len(catalog) }

\* the files search_for_file has collected, named the same way
NonDeepFound == {Key(platform, p) : p \in Range(found_files)}

\* C12: on the same term and filesystem, and before any truncation, every
\* file the non-deep search_for_file finds is found by the deep search too.
C12_DeepFindsSuperset == Returned => NonDeepFound \subseteq DeepFound

\* search_for_file has found files and the deep search finds one more: a
\* file four levels below a catalog directory
C12_Witness ==
  /\ pc = "done"
  /\ NonDeepFound # {}
  /\ \E key \in DeepFound \ NonDeepFound : Len(key) = Len(Home(platform)) + 5

(* -------------------------------- C13 ----------------------------------- *)

\* p lies below catalog directory d, at most MaxDepth levels down
WithinDepth(p, d) ==
  /\ Len(p) - Len(d) \in 1..MaxDepth
  /\ SubSeq(Key(platform, p), 1, Len(d)) = Key(platform, d)

\* C13: every returned file lies inside a catalog directory, directly or one
\* or two subdirectory levels below it, also for a term with path separators.
C13_ReturnedWithinDepth ==
  Returned => \A k \in 1..Len(result) :
                \E j \in 1..Len(search_locations) :
                  WithinDepth(result[k], search_locations[j])

(* -------------------------------- C14 ----------------------------------- *)

\* the step runs the phases of the current location
ScansLocation == InLoop /\ ~ExistsRaises /\ LocationExists /\ loc' = loc + 1

\* C14 as stated: once 20 matches have been collected, no further catalog
\* directory is scanned.
C14_NoScanAfterTwenty == [][Len(found_files) >= 20 => ~ScansLocation]_vars

\* C14: there is no early exit; in a call that returns, every catalog
\* directory that exists and raises no error has been scanned, whatever the
\* number of matches collected before it: its direct matches are collected.
C14_EveryDirectoryScanned ==
  Returned => \A j \in 1..Len(search_locations) :
                LET l == search_locations[j]
                IN (ExistsAt(l) /\ ~ErrorIn(l))
                     => Range(DirectMatches(fs, ListingOf(l), filename))
                          \subseteq Range(found_files)

\* Documents/inv.p was collected after more than 20 matches, the 20th of
\* which came from another catalog directory
C14_Witness ==
  /\ Returned
  /\ LET documents == Home(platform) \o <<dDocuments>>
         p == Append(documents, fInv)
     IN /\ p \in Range(found_files)
        /\ FirstIdx(p) > 20
        /\ ~IsPrefix(documents, found_files[20])

(* -------------------------------- C15 ----------------------------------- *)

\* the list has been built and the call has gone on
CatalogBuilt == pc \notin {"start", "raised"}

\* the home directory of the Linux user
LinuxHome == << <<"h", "o", "m", "e">>, <<"u">> >>

\* the catalog the spec gives for a Linux-like host
SpecLinuxCatalog ==
  << LinuxHome \o <<dDownloads>>,
     LinuxHome \o <<dDocuments>>,
     LinuxHome \o <<dDesktop>>,
     LinuxHome,
     << <<"h", "o", "m", "e">> >>,
     << <<"u", "s", "r">> >>,
     << <<"o", "p", "t">> >>,
     << <<"v", "a", "r">> >>,
     << <<"t", "m", "p">> >> >>

\* C15 as stated: on a Linux-like host the catalog is Downloads, Documents,
\* Desktop, home, /home, /usr, /opt, /var, /tmp, in this order.
C15_LinuxCatalogOfSpec ==
  (platform = "Linux" /\ CatalogBuilt) => search_locations = SpecLinuxCatalog

\* C15: on a Linux-like host the catalog is Downloads, Documents, Desktop of
\* the home directory and then /tmp: user folders first, system-wide after.
C15_LinuxCatalog ==
  (platform = "Linux" /\ CatalogBuilt)
    => search_locations = << LinuxHome \o <<dDownloads>>,
                             LinuxHome \o <<dDocuments>>,
                             LinuxHome \o <<dDesktop>>,
                             << <<"t", "m", "p">> >> >>

\* a Linux search has returned the file of /tmp, scanned as the fourth and
\* last directory
C15_Witness ==
  /\ platform = "Linux"
  /\ Returned
  /\ Len(search_locations) = 4
  /\ << <<"t", "m", "p">>, fInv >> \in Range(result)

(* -------------------------------- C16 ----------------------------------- *)

\* the catalog entries that are written down for the platform unconditionally
FixedCatalog(os) ==
  CASE os = "Windows" ->
         << Home(os) \o <<dDownloads>>,
            Home(os) \o <<dDownloads, dTelegram>>,
            Home(os) \o <<dDocuments>>,
            Home(os) \o <<dDesktop>>,
            Home(os) \o <<dDownloads>>,
            Home(os) \o <<dDocuments>>,
            Home(os) \o <<dDesktop>> >>
    [] os = "Darwin" ->
         << Home(os) \o <<dDownloads>>,
            Home(os) \o <<dDocuments>>,
            Home(os) \o <<dDesktop>>,
            <<dApplications>> >>
    [] OTHER ->
         << Home(os) \o <<dDownloads>>,
            Home(os) \o <<dDocuments>>,
            Home(os) \o <<dDesktop>>,
            <<dTmp>> >>

\* the D: drive exists on the filesystem
DriveExists == Exists(fs, Key(platform, <<dDrive>>))

\* the catalog search_for_file builds on a filesystem with the given nodes
CatalogOn(nodes) ==
  SearchLocations(platform, Exists(nodes, Key(platform, <<dDrive>>)))

\* C16 as stated: the catalog is the same list whatever exists on the
\* filesystem, that is, the list that would be built on any other one.
C16_CatalogIgnoresFilesystem ==
  CatalogBuilt => \A layout \in Layouts :
                    search_locations = CatalogOn(Nodes(platform, 0, "asc", layout))

\* C16: the catalog is the fixed list of the platform, whatever exists,
\* except that on Windows D:/Downloads is appended exactly when the D: drive
\* exists; when that existence check raises no catalog is built.
C16_CatalogFixedButDrive ==
  /\ CatalogBuilt
       => search_locations =
            FixedCatalog(platform)
              \o (IF platform = "Windows" /\ DriveExists
                  THEN << <<dDrive, dDownloads>> >> ELSE <<>>)
  /\ pc = "raised" => search_locations = <<>>

\* a Windows catalog of eight entries: D:/Downloads is listed because the
\* drive exists, the Downloads folder of the user is listed though it does not
C16_Witness ==
  /\ platform = "Windows"
  /\ Returned
  /\ Len(search_locations) = 8
  /\ DriveExists
  /\ ~Exists(fs, Key(platform, Home(platform) \o <<dDownloads>>))

(* -------------------------------- C20 ----------------------------------- *)

\* process_voice_command has returned
Processed == command_result # NoResult

\* the k-th phrase of the table is the first that occurs in the text
FirstPhrase(k, text) ==
  /\ Contains(FilePatterns[k].pattern, text)
  /\ \A j \in 1..(k - 1) : ~Contains(FilePatterns[j].pattern, text)

\* C20: when the lower-cased command contains a phrase of the document
\* table, the filename returned is the one mapped to the first such phrase
\* in table order ('Analyze my cover letter PDF' yields cover_letter.pdf).
C20_FilenameOfFirstPhrase ==
  Processed => \A k \in 1..Len(FilePatterns) :
                 FirstPhrase(k, Strip(ToLower(voice_text)))
                   => command_result.filename = FilePatterns[k].filename

(* ------------------------------- C17 ------------------------------------ *)

\* analyze_with_gemini returned one of its error outcomes
ErrorOutcome(analysis_result) ==
  \/ analysis_result = NotAvailableMessage
  \/ StartsWith(AnalysisErrorPrefix, analysis_result)

\* C17: whenever analyze_with_gemini returns an error outcome (no client, or
\* an exception during the API call) the handlers treat the run as failed:
\* the selected-file handler shows the failure message and appends an entry
\* with success = False and result_length = 0, and neither handler appends
\* an entry with success = True for that run.
C17_ErrorOutcomeIsFailure ==
  (last_analysis.handler # "none" /\ ErrorOutcome(last_analysis.analysis_result)) =>
    /\ \A k \in 1..Len(last_analysis.appended) : ~last_analysis.appended[k].success
    /\ last_analysis.handler = "selected" =>
         /\ last_analysis.message = "failed"
         /\ Len(last_analysis.appended) = 1
         /\ last_analysis.appended[1].result_length = 0

(* ------------------------------- C18 ------------------------------------ *)

\* C18: after any sequence of selections the Selected File section takes its
\* source label and its preselected analysis type from the source of the
\* file now selected: a file selected in the text tab is shown as Text Input
\* with the type chosen in the text tab, also after an earlier voice selection.
C18_SourceOfCurrentSelection ==
  (selected_via = "text" /\ Render(session_state).section = "shown") =>
    /\ Render(session_state).source_text = "Text Input"
    /\ Render(session_state).analysis_type_selected = session_state["text_analysis_type"]

(* ------------------------------- C19 ------------------------------------ *)

\* the step appends an entry of the selected-file handler
LogsSelectedFile ==
  /\ Len(analysis_history') = Len(analysis_history) + 1
  /\ last_analysis'.handler = "selected"

\* C19: an entry appended by the selected-file handler has voice_command =
\* True exactly when the analysed file was selected by a voice command; an
\* entry for a file selected in the text tab has voice_command = False,
\* whatever was selected before.
C19_VoiceFlagOfCurrentSelection ==
  [][LogsSelectedFile =>
       (analysis_history'[Len(analysis_history')].voice_command
          <=> selected_via = "voice")]_vars

(* ------------------------------- C21 ------------------------------------ *)

\* the lower-cased command
Command == Strip(ToLower(voice_text))

\* a keyword of the group occurs in the command
Says(group) == AnyIn(PatternWords(group), Command)

\* content or quality occurs in the command
SaysContent == Contains(<<"c", "o", "n", "t", "e", "n", "t">>, Command) \/ Contains(<<"q", "u", "a", "l", "i", "t", "y">>, Command)

\* C21: process_voice_command returns one of the four supported analysis
\* types, chosen by fixed priority over the lower-cased command: Document
\* Summary for a summary keyword, else Key Information Extraction for an
\* extract keyword, else Automation Opportunities for an automation keyword,
\* else Content Analysis for content or quality, else Document Summary.
C21_AnalysisTypeByPriority ==
  Processed =>
    /\ \E k \in 1..Len(AnalysisTypes) : command_result.analysis_type = AnalysisTypes[k]
    /\ Says("summary") => command_result.analysis_type = "Document Summary"
    /\ (~Says("summary") /\ Says("extract")) =>
         command_result.analysis_type = "Key Information Extraction"
    /\ (~Says("summary") /\ ~Says("extract") /\ Says("automation")) =>
         command_result.analysis_type = "Automation Opportunities"
    /\ (~Says("summary") /\ ~Says("extract") /\ ~Says("automation") /\ SaysContent) =>
         command_result.analysis_type = "Content Analysis"
    /\ (~Says("summary") /\ ~Says("extract") /\ ~Says("automation") /\ ~SaysContent) =>
         command_result.analysis_type = "Document Summary"

\* a command with a summary keyword and an extract keyword was processed
C21_Witness ==
  /\ Processed
  /\ Says("summary") /\ Says("extract")
  /\ command_result.analysis_type = "Document Summary"

(* ------------------------------- C22 ------------------------------------ *)

\* C22: the confidence is high exactly when a filename was detected;
\* otherwise it is medium exactly when the command contains an analyze
\* keyword, and low in every remaining case; a result without filename
\* never has confidence high.
C22_ConfidenceOfDetection ==
  Processed =>
    /\ command_result.confidence = "high" <=> command_result.filename # NoFilename
    /\ command_result.filename = NoFilename =>
         /\ command_result.confidence = "medium" <=> Says("analyze")
         /\ command_result.confidence = "low" <=> ~Says("analyze")

\* a command with an analyze keyword and a filename was processed
C22_Witness ==
  /\ Processed
  /\ Says("analyze")
  /\ command_result.filename # NoFilename
  /\ command_result.confidence = "high"

(* ------------------------------- C23 ------------------------------------ *)

\* C23: after any sequence of selections, validations and Select New File
\* the session state holds selected_file exactly when it holds
\* selected_file_info, so the Selected File section is entered exactly when
\* a file is selected.
C23_FileIffFileInfo ==
  /\ HasAttr(session_state, "selected_file") <=> HasAttr(session_state, "selected_file_info")
  /\ Render(session_state).section # "hidden" <=> HasAttr(session_state, "selected_file")

\* a file was selected in the text tab after Select New File had cleared a
\* selection made by voice and analysed
C23_Witness ==
  /\ selected_via = "text"
  /\ analysis_history # <<>>
  /\ analysis_history[Len(analysis_history)].voice_command
  /\ ~HasAttr(session_state, "voice_command_used")
  /\ HasAttr(session_state, "selected_file")
  /\ HasAttr(session_state, "selected_file_info")

(* ------------------------------- C24 ------------------------------------ *)

\* C24: selected_file_info, when present, is a file record with at least
\* name, size_mb and type, so the Selected File section never fails on a
\* missing key, also when the file vanishes between the existence check and
\* the stat of get_file_info.
C24_FileInfoWellFormed ==
  HasAttr(session_state, "selected_file_info") =>
    /\ {"name", "size_mb", "type"} \subseteq DOMAIN session_state["selected_file_info"]
    /\ Render(session_state).section # "broken"

(* ------------------------------- C25 ------------------------------------ *)

\* C25: Select New File removes selected_file, selected_file_info,
\* voice_analysis_type, text_analysis_type and voice_command_used, so the
\* following run does not show the Selected File section, and the selection
\* that follows carries no source or analysis type of an earlier one.
C25_SelectNewFileClears ==
  /\ [][SelectNewFile =>
          /\ \A key \in {"selected_file", "selected_file_info", "voice_analysis_type",
                         "text_analysis_type", "voice_command_used"} :
               ~HasAttr(session_state', key)
          /\ Render(session_state').section = "hidden"]_vars
  /\ [][(selected_via = "none" /\ selected_via' = "text") =>
          /\ Render(session_state').source_text = "Text Input"
          /\ Render(session_state').analysis_type_selected
               = session_state'["text_analysis_type"]
          /\ ~HasAttr(session_state', "voice_command_used")]_vars

\* Select New File has cleared a selection made by voice
C25_Witness ==
  /\ analysis_history # <<>>
  /\ analysis_history[Len(analysis_history)].file_path # UploadedPath
  /\ analysis_history[Len(analysis_history)].voice_command
  /\ selected_via = "none"
  /\ session_state = EmptySession

(* ------------------------------- C26 ------------------------------------ *)

\* C26: every completed analysis attempt, successful or failed, made from
\* the upload tab or from the Selected File section appends exactly one
\* entry to analysis_history.
C26_OneEntryPerAttempt ==
  [][(AnalyzeUploaded \/ StartAnalysis) =>
       /\ Len(analysis_history') = Len(analysis_history) + 1
       /\ SubSeq(analysis_history', 1, Len(analysis_history)) = analysis_history]_vars

====
